---- MODULE Spec2Model ----
(***************************************************************************)
(* Model of src/Translate.py: POMultilineTester, a line-oriented rewriter  *)
(* of PO catalogs.  Strings are sequences of one-character strings, so     *)
(* that strip, startswith, slicing, replace and split are computed as the  *)
(* Python code computes them.                                              *)
(***************************************************************************)
EXTENDS Integers, Sequences, FiniteSets, TLC

VARIABLES
    pc,                    \* position in process_po_file: "start", "loop", "done"
    lines,                 \* f.readlines(): the input lines
    i,                     \* number of input lines consumed by the for loop
    mode,                  \* 'normal' | 'multiline'
    multiline_start_line,
    multiline_lines,       \* buffered lines of the open span
    multiline_text,        \* accumulated source text of the open span
    processed_lines,       \* the output buffer
    stats,                 \* self.stats
    maps,                  \* tag_map, var_map, emotion_map, bracket_map
    counters,              \* tag_counter, var_counter, emotion_counter, bracket_counter
    log,                   \* records appended by log_translation
    calls,                 \* history of translate_text calls
    output_file,           \* the output file: whether written, and its lines
    returned,              \* return value of process_po_file: "none" until it returns
    sc_content,            \* content, the argument of the latest scan_markup call
    scans,                 \* for each content this process scanned: the order its set
                           \* loops visited the matches in, and the maps and counters built
    st_pc, st_text, st_n, st_result,  \* a direct call of split_translated_text
    pt_text                \* the text of direct protect_text / translate_text calls

vars == <<pc, lines, i, mode, multiline_start_line, multiline_lines,
          multiline_text, processed_lines, stats, maps, counters, log, calls,
          output_file, returned, sc_content, scans, st_pc, st_text, st_n, st_result,
          pt_text>>

pvars == <<pc, lines, i, mode, multiline_start_line, multiline_lines,
           multiline_text, processed_lines, stats, maps, counters, log, calls,
           output_file, returned, sc_content, scans>>

svars == <<st_pc, st_text, st_n, st_result, pt_text>>

----------------------------------------------------------------------------
(* Bounds of the model *)

\* longest input file, in lines
MaxLines == 4
\* longest input file of the fair specification, in lines
MaxLiveLines == 3
\* longest translated text handed to a direct split_translated_text call
MaxTextLen == 6
\* largest original line count of a direct split_translated_text call
MaxOrigLines == 3
\* most distinct contents one object scans in the direct-call specifications
MaxScans == 2
\* most pipeline calls made in the direct-call specifications
MaxCalls == 1
\* longest text of the escape specification, in characters
MaxEscLen == 3

----------------------------------------------------------------------------
(* Characters and Python string primitives *)

Q  == "\""
NL == "\n"
SP == " "
BS == "\\"

IsSpace(c) == c \in {" ", "\n", "\t", "\r"}

\* F applied to the value of x: the argument is evaluated once, as Python
\* evaluates the argument of a call
Strict(F(_), x) == CHOOSE r \in {F(v) : v \in {x}} : TRUE

\* str.lstrip()
RECURSIVE LStrip(_)
LStrip(x) ==
    Strict(LAMBDA s : IF s = <<>> THEN s
                      ELSE IF IsSpace(Head(s)) THEN LStrip(Tail(s)) ELSE s, x)

\* str.rstrip()
RECURSIVE RStrip(_)
RStrip(x) ==
    Strict(LAMBDA s : IF s = <<>> THEN s
                      ELSE IF IsSpace(s[Len(s)]) THEN RStrip(SubSeq(s, 1, Len(s) - 1))
                      ELSE s, x)

\* str.strip()
Strip(s) == LStrip(RStrip(s))

\* str.startswith(p)
StartsWith(x, p) == Strict(LAMBDA s : Len(s) >= Len(p) /\ SubSeq(s, 1, Len(p)) = p, x)

\* str.endswith(p)
EndsWith(x, p) ==
    Strict(LAMBDA s : Len(s) >= Len(p) /\ SubSeq(s, Len(s) - Len(p) + 1, Len(s)) = p, x)

\* p in s
Contains(x, p) ==
    Strict(LAMBDA s : \E k \in 1..(Len(s) - Len(p) + 1) : SubSeq(s, k, k + Len(p) - 1) = p, x)

\* s[1:-1]
Slice1m1(x) == Strict(LAMBDA s : SubSeq(s, 2, Len(s) - 1), x)

\* str.replace(old, new): leftmost non-overlapping occurrences
RECURSIVE Replace(_, _, _)
Replace(x, old, new) ==
    Strict(LAMBDA s : IF Len(s) < Len(old) \/ s = <<>> THEN s
                      ELSE IF StartsWith(s, old)
                           THEN new \o Replace(SubSeq(s, Len(old) + 1, Len(s)), old, new)
                           ELSE <<Head(s)>> \o Replace(Tail(s), old, new), x)

\* the length of the leading run of non-whitespace characters
RECURSIVE NonWsLen(_)
NonWsLen(x) ==
    Strict(LAMBDA s : IF s = <<>> \/ IsSpace(Head(s)) THEN 0 ELSE 1 + NonWsLen(Tail(s)), x)

\* str.split(): the maximal runs of non-whitespace characters
RECURSIVE Split(_)
Split(x) ==
    Strict(LAMBDA s : IF s = <<>> THEN <<>>
                      ELSE IF IsSpace(Head(s)) THEN Split(Tail(s))
                      ELSE <<SubSeq(s, 1, NonWsLen(s))>>
                              \o Split(SubSeq(s, NonWsLen(s) + 1, Len(s))), x)

\* ' '.join(ws)
RECURSIVE Join(_)
Join(x) ==
    Strict(LAMBDA ws : IF ws = <<>> THEN <<>>
                       ELSE IF Len(ws) = 1 THEN ws[1]
                       ELSE ws[1] \o <<SP>> \o Join(Tail(ws)), x)

\* ''.join(ls)
RECURSIVE Flatten(_)
Flatten(x) ==
    Strict(LAMBDA ls : IF ls = <<>> THEN <<>> ELSE Head(ls) \o Flatten(Tail(ls)), x)

Min(a, b) == IF a < b THEN a ELSE b
Max(a, b) == IF a > b THEN a ELSE b

\* str(n) for a non-negative integer
Digit(d) == CASE d = 0 -> "0" [] d = 1 -> "1" [] d = 2 -> "2" [] d = 3 -> "3"
              [] d = 4 -> "4" [] d = 5 -> "5" [] d = 6 -> "6" [] d = 7 -> "7"
              [] d = 8 -> "8" [] d = 9 -> "9"

RECURSIVE IntToStr(_)
IntToStr(n) == IF n < 10 THEN <<Digit(n)>> ELSE IntToStr(n \div 10) \o <<Digit(n % 10)>>

IsDigit(c) == c \in {"0", "1", "2", "3", "4", "5", "6", "7", "8", "9"}

\* str.isdigit()
IsDigitStr(s) == s # <<>> /\ \A k \in 1..Len(s) : IsDigit(s[k])

Range(f) == {f[x] : x \in DOMAIN f}

----------------------------------------------------------------------------
(* scan_markup and protect_text *)

Categories == <<"tag", "var", "emotion", "bracket">>

Open(cat) == CASE cat = "tag" -> "{" [] cat = "var" -> "[" [] cat = "emotion" -> "("
               [] cat = "bracket" -> "<"

Close(cat) == CASE cat = "tag" -> "}" [] cat = "var" -> "]" [] cat = "emotion" -> ")"
                [] cat = "bracket" -> ">"

\* the greedy [^oc]+ : the length of the leading run of non-delimiters
RECURSIVE RunLen(_, _, _)
RunLen(x, o, c) ==
    Strict(LAMBDA s : IF s = <<>> \/ Head(s) = o \/ Head(s) = c THEN 0
                      ELSE 1 + RunLen(Tail(s), o, c), x)

\* the length of the match of  o([^oc]+)c  that starts at the head of s,
\* or 0 when none starts there
MatchLen(x, o, c) ==
    Strict(LAMBDA s :
             IF s = <<>> \/ Head(s) # o THEN 0
             ELSE Strict(LAMBDA r : IF r >= 1 /\ Len(s) >= r + 2 /\ s[r + 2] = c
                                    THEN r + 2 ELSE 0,
                         RunLen(Tail(s), o, c)), x)

\* set(re.findall(pattern, content)): matches of  o([^oc]+)c  cannot overlap, so
\* every position where one starts contributes its group
MatchSet(x, o, c) ==
    Strict(LAMBDA content :
             {SubSeq(content, p + 1, p + MatchLen(SubSeq(content, p, Len(content)), o, c) - 2) :
                 p \in {q \in 1..Len(content) :
                          content[q] = o /\ MatchLen(SubSeq(content, q, Len(content)), o, c) > 0}},
           x)

\* the emotion filter of scan_markup: digits once '.' and ',' are removed
IsNumeric(match) == IsDigitStr(Replace(Replace(match, <<".">>, <<>>), <<",">>, <<>>))

\* the matches scan_markup maps in one category
Scanned(content, cat) ==
    {m \in MatchSet(content, Open(cat), Close(cat)) :
        ~(cat = "emotion" /\ IsNumeric(m))}

\* the orders in which  for match in set(...)  may visit the matches
Orders(S) == {f \in [1..Cardinality(S) -> S] : \A a, b \in DOMAIN f : f[a] = f[b] => a = b}

\* variant: the k-th match gets str(start + k - 2)
MapFrom_OneLess(ord, start) ==
    [m \in Range(ord) |-> IntToStr(start - 2 + CHOOSE k \in DOMAIN ord : ord[k] = m)]

\* the map built by visiting the matches in order ord with the counter at start:
\* the k-th match gets str(start + k - 1)
MapFrom(ord, start) ==
    [m \in Range(ord) |-> IntToStr(start - 1 + CHOOSE k \in DOMAIN ord : ord[k] = m)]

EmptyMap == [m \in {} |-> <<>>]

EmptyMaps == [tag |-> EmptyMap, var |-> EmptyMap, emotion |-> EmptyMap, bracket |-> EmptyMap]

InitCounters == [tag |-> 1, var |-> 1, emotion |-> 1, bracket |-> 1]

\* no content scanned yet
NoScans == [c \in {} |-> <<>>]

\* variant: the counters are carried over from the previous scan
ResetCounters_Kept(c) == c

\* self.tag_counter = 1 ... self.bracket_counter = 1
ResetCounters(c) == InitCounters

\* the orders in which the four set loops may visit the matches of content c
ScanOrders(c) ==
    [tag : Orders(Scanned(c, "tag")), var : Orders(Scanned(c, "var")),
     emotion : Orders(Scanned(c, "emotion")), bracket : Orders(Scanned(c, "bracket"))]

\* set(re.findall(pattern, content)) is built and visited the same way whenever
\* one process scans the same content again; otherwise its order is arbitrary
VisitOrders(sc, c) == IF c \in DOMAIN sc THEN {sc[c].ords} ELSE ScanOrders(c)

\* scan_markup(content), the set loops visiting the matches in the orders ords:
\* counters reset, maps cleared, then every match gets the next id of its category
scan_markup(ctr, ords) ==
    [maps     |-> [cat \in DOMAIN ords |-> MapFrom(ords[cat], ResetCounters(ctr)[cat])],
     counters |-> [cat \in DOMAIN ords |-> ResetCounters(ctr)[cat] + Len(ords[cat])]]

\* what scans remembers of the latest scan_markup call on one content; again tells
\* that the content had been scanned before
ScanRec(ords, r, again) ==
    [ords |-> ords, maps |-> r.maps, counters |-> r.counters, again |-> again]

\* variant: an unmapped emotion gets '?' as the other categories do
Placeholder_AlwaysQuestion(m, cat, inner) ==
    IF inner \in DOMAIN m[cat] THEN m[cat][inner] ELSE <<"?">>

\* the replacement lambdas of protect_text: map.get(inner, '?') or map.get(inner, inner)
Placeholder(m, cat, inner) ==
    IF inner \in DOMAIN m[cat] THEN m[cat][inner]
    ELSE IF cat = "emotion" THEN inner ELSE <<"?">>

\* re.sub(pattern, replacement, s) for one category
RECURSIVE ReSub(_, _, _)
ReSub(x, m, cat) ==
    Strict(LAMBDA s :
             IF s = <<>> THEN <<>>
             ELSE Strict(LAMBDA n :
                           IF n > 0
                           THEN <<Open(cat)>> \o Placeholder(m, cat, SubSeq(s, 2, n - 1))
                                   \o <<Close(cat)>>
                                   \o ReSub(SubSeq(s, n + 1, Len(s)), m, cat)
                           ELSE <<Head(s)>> \o ReSub(Tail(s), m, cat),
                         MatchLen(s, Open(cat), Close(cat))), x)

S_NEWLINE   == <<"<", "!", "N", "E", "W", "L", "I", "N", "E", "!", ">">>
S_TAB       == <<"<", "!", "T", "A", "B", "!", ">">>
S_QUOTE     == <<"<", "!", "Q", "U", "O", "T", "E", "!", ">">>
S_BACKSLASH == <<"<", "!", "B", "A", "C", "K", "S", "L", "A", "S", "H", "!", ">">>
S_CARRIAGE  == <<"<", "!", "C", "A", "R", "R", "I", "A", "G", "E", "!", ">">>

\* escape_map, in insertion order
escape_map == << <<(<<BS, "n">>), S_NEWLINE>>, <<(<<BS, "t">>), S_TAB>>,
                 <<(<<BS, Q>>), S_QUOTE>>, <<(<<BS, BS>>), S_BACKSLASH>>,
                 <<(<<BS, "r">>), S_CARRIAGE>> >>

\* variant: the backslash sentinel is not restored
restore_map_NoBackslash ==
    << <<S_NEWLINE, (<<BS, "n">>)>>, <<S_TAB, (<<BS, "t">>)>>,
       <<S_QUOTE, (<<BS, Q>>)>>, <<S_CARRIAGE, (<<BS, "r">>)>> >>

\* restore_map, in insertion order
restore_map == << <<S_NEWLINE, (<<BS, "n">>)>>, <<S_TAB, (<<BS, "t">>)>>,
                  <<S_QUOTE, (<<BS, Q>>)>>, <<S_BACKSLASH, (<<BS, BS>>)>>,
                  <<S_CARRIAGE, (<<BS, "r">>)>> >>

\* for old, new in table: s = s.replace(old, new)
RECURSIVE ReplaceEach(_, _)
ReplaceEach(x, table) ==
    Strict(LAMBDA s : IF table = <<>> THEN s
                      ELSE ReplaceEach(Replace(s, table[1][1], table[1][2]), Tail(table)), x)

protect_text(m, text) ==
    ReplaceEach(ReSub(ReSub(ReSub(ReSub(text, m, "tag"), m, "var"), m, "emotion"),
                      m, "bracket"),
                escape_map)

----------------------------------------------------------------------------
(* translate_text and its external command *)

None == "None"

RES_URL == <<"r", "e", "s", ":", "/", "/">>
EXT_PNG == <<".", "p", "n", "g">>
EXT_JPG == <<".", "j", "p", "g">>
EXT_MP3 == <<".", "m", "p", "3">>

\* what the trans command may print on a run that exits with status 0
StdoutSet == { <<NL>>,
               <<"x", SP, "y", SP, "z", NL>> }

\* variant: a text ending in .mp3 is sent to the command
NoCommand_Mp3Sent(x) ==
    Strict(LAMBDA text :
             \/ text = <<>>
             \/ Strip(text) = <<>>
             \/ StartsWith(Strip(text), <<"@">>)
             \/ Contains(text, RES_URL)
             \/ EndsWith(text, EXT_PNG) \/ EndsWith(text, EXT_JPG),
           x)

\* the early returns of translate_text: no command is run
NoCommand(x) ==
    Strict(LAMBDA text :
             \/ text = <<>>
             \/ Strip(text) = <<>>
             \/ StartsWith(Strip(text), <<"@">>)
             \/ Contains(text, RES_URL)
             \/ EndsWith(text, EXT_PNG) \/ EndsWith(text, EXT_JPG) \/ EndsWith(text, EXT_MP3),
           x)

\* the result of translate_text once the command printed out with status 0
AfterCommand(text, out) ==
    Strict(LAMBDA translated :
             IF translated = <<>>
             THEN [translated |-> text, error |-> "Empty translation result"]
             ELSE [translated |-> ReplaceEach(translated, restore_map), error |-> None],
           Strip(out))

\* every (translated, error) pair translate_text(text) may return
translate_text(x) ==
    Strict(LAMBDA text :
             IF text = <<>> \/ Strip(text) = <<>>
             THEN {[translated |-> text, error |-> "Empty input"]}
             ELSE IF NoCommand(text)
             THEN {[translated |-> text, error |-> "Command skipped"]}
             ELSE {[translated |-> text, error |-> "Translation command failed"],
                   [translated |-> text, error |-> "Translation timeout"],
                   [translated |-> text, error |-> "Error: e"]}
                  \cup {AfterCommand(text, out) : out \in StdoutSet},
           x)

----------------------------------------------------------------------------
(* extract_quoted_text and split_translated_text *)

QQ == <<Q>>

\* variant: only the leading quote is tested
IsQuoted_LeadingOnly(line) == StartsWith(Strip(line), QQ)

\* line.strip() starts and ends with a double quote
IsQuoted(line) == StartsWith(Strip(line), QQ) /\ EndsWith(Strip(line), QQ)

\* variant: the slice is taken from the line as given
extract_quoted_text_Unstripped(line) ==
    IF StartsWith(Strip(line), QQ) /\ EndsWith(Strip(line), QQ)
    THEN Slice1m1(line) ELSE <<>>

extract_quoted_text(line) ==
    IF IsQuoted(line) THEN Slice1m1(Strip(line)) ELSE <<>>

Quote(t) == QQ \o t \o QQ

\* the for loop over range(0, len(words), words_per_line): x holds the words
\* from offset i on, so i + words_per_line < len(words) is wpl < Len(ws)
RECURSIVE Pack(_, _)
Pack(x, wpl) ==
    Strict(LAMBDA ws :
             IF ws = <<>> THEN <<>>
             ELSE <<Quote(Join(SubSeq(ws, 1, Min(wpl, Len(ws))))
                             \o (IF wpl < Len(ws) THEN <<SP>> ELSE <<>>))>>
                     \o Pack(SubSeq(ws, wpl + 1, Len(ws)), wpl), x)

\* variant: the last line is popped and not merged into the one before it
MergeLast_Dropped(x) == Strict(LAMBDA ls : SubSeq(ls, 1, Len(ls) - 1), x)

\* last_line = lines.pop(); lines[-1] = lines[-1][:-1] + last_line[1:]
MergeLast(x) ==
    Strict(LAMBDA ls :
             Append(SubSeq(ls, 1, Len(ls) - 2),
                    SubSeq(ls[Len(ls) - 1], 1, Len(ls[Len(ls) - 1]) - 1)
                       \o Tail(ls[Len(ls)])), x)

\* variant: surplus lines are not merged
Merge_Skipped(x, target) == x

\* while len(lines) > target_line_count and len(lines) > 1: merge the last two
RECURSIVE Merge(_, _)
Merge(x, target) ==
    Strict(LAMBDA ls : IF Len(ls) > target /\ Len(ls) > 1
                       THEN Merge(MergeLast(ls), target)
                       ELSE ls, x)

\* split_translated_text(translated_text, original_lines) with
\* target_line_count = len(original_lines)
split_translated_text(translated_text, target_line_count) ==
    IF translated_text = <<>> THEN <<>>
    ELSE IF target_line_count = 1 THEN <<Quote(translated_text)>>
    ELSE Strict(LAMBDA words :
                  IF words = <<>> THEN <<Quote(translated_text)>>
                  ELSE Merge(Pack(words, Max(1, Len(words) \div target_line_count)),
                             target_line_count),
                Split(translated_text))

----------------------------------------------------------------------------
(* The lines of a PO file and their classification in process_po_file *)

MSGID        == <<"m", "s", "g", "i", "d">>
MSGID_Q      == MSGID \o <<SP, Q>>
MSGID_EMPTY  == MSGID \o <<SP, Q, Q>>
MSGSTR_EMPTY == <<"m", "s", "g", "s", "t", "r", SP, Q, Q>>

\* the input lines the model draws a file from
LineSet == { MSGID_EMPTY \o <<NL>>,                           \* msgid ""
             MSGSTR_EMPTY \o <<NL>>,                          \* msgstr ""
             <<SP, Q, "{", "a", "}", SP, "b", Q, NL>>,        \*  "{a} b"
             <<Q, SP, Q, NL>>,                                \* " "
             MSGID_Q \o <<"a", Q, NL>>,                       \* msgid "a"
             <<Q, "a", NL>>,                                  \* "a
             MSGID_Q \o <<NL>>,                               \* msgid "
             MSGID_Q \o <<SP, Q, NL>> }                       \* msgid " "

FilesUpTo(n) == UNION {[1..k -> LineSet] : k \in 0..n}

\* the length of the leading run of whitespace
RECURSIVE WsLen(_)
WsLen(x) ==
    Strict(LAMBDA s : IF s = <<>> \/ ~IsSpace(Head(s)) THEN 0 ELSE 1 + WsLen(Tail(s)), x)

\* the length of the leading run of characters other than the double quote
RECURSIVE NonQuoteLen(_)
NonQuoteLen(x) ==
    Strict(LAMBDA s : IF s = <<>> \/ Head(s) = Q THEN 0 ELSE 1 + NonQuoteLen(Tail(s)), x)

\* a match of  msgid\s+"([^"]*)"  at the head of s: <<group(1)>>, or <<>>
MsgidMatch(x) ==
    Strict(LAMBDA s :
      IF ~StartsWith(s, MSGID) THEN <<>>
      ELSE Strict(LAMBDA a :
             IF WsLen(a) < 1 THEN <<>>
             ELSE Strict(LAMBDA b :
                    IF b = <<>> \/ Head(b) # Q THEN <<>>
                    ELSE Strict(LAMBDA c :
                           IF Len(c) > NonQuoteLen(c)
                           THEN <<SubSeq(c, 1, NonQuoteLen(c))>>
                           ELSE <<>>,
                         Tail(b)),
                  SubSeq(a, WsLen(a) + 1, Len(a))),
           SubSeq(s, Len(MSGID) + 1, Len(s))), x)

\* re.search(r'msgid\s+"([^"]*)"', s): <<group(1)>> of the leftmost match,
\* or <<>> when there is none
RECURSIVE MsgidSearch(_)
MsgidSearch(x) ==
    Strict(LAMBDA s : IF s = <<>> THEN <<>>
                      ELSE IF MsgidMatch(s) # <<>> THEN MsgidMatch(s)
                      ELSE MsgidSearch(Tail(s)), x)

IsSingleLine(original_line) ==
    StartsWith(Strip(original_line), MSGID_Q) /\ Strip(original_line) # MSGID_EMPTY

IsMultilineStart(original_line) == Strip(original_line) = MSGID_EMPTY

IsSpanEnd(original_line) == StartsWith(Strip(original_line), MSGSTR_EMPTY)

\* an element of processed_lines or multiline_lines: the line object, which is
\* input line number n (0 for a line made by split_translated_text) with its text
Ln(n, text) == [n |-> n, text |-> text]

InitStats == [success |-> 0, failed |-> 0, errors |-> 0, skipped |-> 0, total_entries |-> 0]

\* the output file before f.writelines
NotWritten == [written |-> FALSE, lines |-> <<>>]

\* variant: a failure is counted in errors
CountFailed_AsErrors(st) == [st EXCEPT !.errors = @ + 1]

\* variant: a success is not counted
CountSuccess_Forgotten(st) == st

\* variant: an empty span is counted as failed
CountSkipped_AsFailed(st) == [st EXCEPT !.failed = @ + 1]

\* variant: a closed span is not counted in total_entries
CountEntry_Forgotten(st) == st

\* self.stats[...] += 1
CountSuccess(st) == [st EXCEPT !.success = @ + 1]
CountFailed(st)  == [st EXCEPT !.failed = @ + 1]
CountSkipped(st) == [st EXCEPT !.skipped = @ + 1]
CountEntry(st)   == [st EXCEPT !.total_entries = @ + 1]

\* processed_lines.extend(multiline_lines)
KeepCollected(pl, ml) == pl \o ml

\* the arguments of one log_translation call
LogRec(line_range, status, original_text, translated_text, error_msg) ==
    [line_range |-> line_range, status |-> status, original_text |-> original_text,
     translated_text |-> translated_text, error_msg |-> error_msg]

\* one call of the transform pipeline: protect_text(source), translate_text(protected)
CallRec(source, protected, r) ==
    [source |-> source, protected |-> protected, ran |-> ~NoCommand(protected),
     translated |-> r.translated, error |-> r.error]

----------------------------------------------------------------------------
(* The state machine *)

Init ==
    /\ pc = "start"
    /\ lines = <<>>
    /\ i = 0
    /\ mode = "normal"
    /\ multiline_start_line = 0
    /\ multiline_lines = <<>>
    /\ multiline_text = <<>>
    /\ processed_lines = <<>>
    /\ stats = InitStats
    /\ maps = EmptyMaps
    /\ counters = InitCounters
    /\ log = <<>>
    /\ calls = <<>>
    /\ output_file = NotWritten
    /\ returned = "none"
    /\ sc_content = <<>>
    /\ scans = NoScans
    /\ st_pc = "idle"
    /\ st_text = <<>>
    /\ st_n = 1
    /\ st_result = <<>>
    /\ pt_text = <<>>

\* os.path.exists(input_file) is false
FileNotFound ==
    /\ pc = "start"
    /\ pc' = "done"
    /\ returned' = "False"
    /\ UNCHANGED <<lines, i, mode, multiline_start_line, multiline_lines, multiline_text,
                   processed_lines, stats, maps, counters, log, calls, output_file,
                   sc_content, scans>>
    /\ UNCHANGED svars

\* init_log_file, readlines, scan_markup and the state machine variables
ReadFile(maxlen) ==
    /\ pc = "start"
    /\ \E input \in FilesUpTo(maxlen) :
         /\ lines' = input
         /\ \E c \in {Flatten(input)} :
              \E ords \in VisitOrders(scans, c) :
                \E r \in {scan_markup(counters, ords)} :
                   /\ sc_content' = c
                   /\ maps' = r.maps
                   /\ counters' = r.counters
                   /\ scans' = (c :> ScanRec(ords, r, c \in DOMAIN scans)) @@ scans
    /\ log' = <<>>
    /\ mode' = "normal"
    /\ multiline_start_line' = 0
    /\ multiline_lines' = <<>>
    /\ multiline_text' = <<>>
    /\ processed_lines' = <<>>
    /\ i' = 0
    /\ pc' = "loop"
    /\ UNCHANGED <<stats, calls, output_file, returned>>
    /\ UNCHANGED svars

\* variant: the loop stops at the first failed entry
Looping_StopOnFailure == pc = "loop" /\ i < Len(lines) /\ stats.failed = 0

Looping == pc = "loop" /\ i < Len(lines)

line == lines[i + 1]

original_line == RStrip(line)

\* the frame of one iteration of the for loop
Advance ==
    /\ i' = i + 1
    /\ UNCHANGED <<pc, lines, maps, counters, output_file, returned, sc_content, scans>>
    /\ UNCHANGED svars

\* normal mode, single line msgid with text: protect, translate, log, count
SingleLineTranslate ==
    /\ Looping /\ mode = "normal"
    /\ IsSingleLine(original_line)
    /\ MsgidSearch(original_line) # <<>>
    /\ \E original_text \in {MsgidSearch(original_line)[1]} :
         /\ Strip(original_text) # <<>>
         /\ \E protected_text \in {protect_text(maps, original_text)} :
              \E r \in translate_text(protected_text) :
                /\ calls' = Append(calls, CallRec(original_text, protected_text, r))
                /\ IF r.error # None
                   THEN /\ log' = Append(log, LogRec(<<i + 1>>, "ERROR", original_text,
                                                     <<>>, r.error))
                        /\ stats' = CountFailed(stats)
                        /\ processed_lines' = Append(processed_lines, Ln(i + 1, line))
                   ELSE /\ log' = Append(log, LogRec(<<i + 1>>, "SUCCESS", original_text,
                                                     r.translated, ""))
                        /\ stats' = CountSuccess(stats)
                        /\ processed_lines' = Append(processed_lines, Ln(i + 1, line))
    /\ UNCHANGED <<mode, multiline_start_line, multiline_lines, multiline_text>>
    /\ Advance

\* normal mode, single line msgid whose text is blank
SingleLineBlank ==
    /\ Looping /\ mode = "normal"
    /\ IsSingleLine(original_line)
    /\ MsgidSearch(original_line) # <<>>
    /\ Strip(MsgidSearch(original_line)[1]) = <<>>
    /\ processed_lines' = Append(processed_lines, Ln(i + 1, line))
    /\ UNCHANGED <<mode, multiline_start_line, multiline_lines, multiline_text,
                   stats, log, calls>>
    /\ Advance

\* normal mode, single line msgid the regular expression does not match
SingleLineNoMatch ==
    /\ Looping /\ mode = "normal"
    /\ IsSingleLine(original_line)
    /\ MsgidSearch(original_line) = <<>>
    /\ processed_lines' = Append(processed_lines, Ln(i + 1, line))
    /\ UNCHANGED <<mode, multiline_start_line, multiline_lines, multiline_text,
                   stats, log, calls>>
    /\ Advance

\* normal mode, msgid "": start multiline mode
MultilineStart ==
    /\ Looping /\ mode = "normal"
    /\ ~IsSingleLine(original_line)
    /\ IsMultilineStart(original_line)
    /\ mode' = "multiline"
    /\ multiline_start_line' = i + 1
    /\ multiline_lines' = <<Ln(i + 1, line)>>
    /\ multiline_text' = <<>>
    /\ UNCHANGED <<processed_lines, stats, log, calls>>
    /\ Advance

\* normal mode, regular line
RegularLine ==
    /\ Looping /\ mode = "normal"
    /\ ~IsSingleLine(original_line)
    /\ ~IsMultilineStart(original_line)
    /\ processed_lines' = Append(processed_lines, Ln(i + 1, line))
    /\ UNCHANGED <<mode, multiline_start_line, multiline_lines, multiline_text,
                   stats, log, calls>>
    /\ Advance

\* multiline mode, quoted line: collect the text part
CollectText ==
    /\ Looping /\ mode = "multiline"
    /\ IsQuoted(original_line)
    /\ multiline_text' = multiline_text \o extract_quoted_text(original_line)
    /\ multiline_lines' = Append(multiline_lines, Ln(i + 1, line))
    /\ UNCHANGED <<mode, multiline_start_line, processed_lines, stats, log, calls>>
    /\ Advance

\* variant: the msgid "" line is counted among the original text lines
original_text_lines_Unfiltered == multiline_lines

\* [l for l in multiline_lines if l.strip().startswith('"')]
original_text_lines == SelectSeq(multiline_lines, LAMBDA l : StartsWith(Strip(l.text), QQ))

\* the translated lines as appended to processed_lines: trans_line + '\n'
RECURSIVE TransLines(_)
TransLines(x) ==
    Strict(LAMBDA ls : IF ls = <<>> THEN <<>>
                       ELSE <<Ln(0, Head(ls) \o <<NL>>)>> \o TransLines(Tail(ls)), x)

\* multiline mode, msgstr "" with source text: translate the span
SpanEndTranslate ==
    /\ Looping /\ mode = "multiline"
    /\ ~IsQuoted(original_line)
    /\ IsSpanEnd(original_line)
    /\ Strip(multiline_text) # <<>>
    /\ \E protected_text \in {protect_text(maps, multiline_text)},
          line_range \in {<<multiline_start_line + 1, (i + 1) - 1>>} :
          \E r \in translate_text(protected_text) :
             /\ calls' = Append(calls, CallRec(multiline_text, protected_text, r))
             /\ IF r.error # None
                THEN /\ log' = Append(log, LogRec(line_range, "ERROR", multiline_text,
                                                  <<>>, r.error))
                     /\ stats' = CountEntry(CountFailed(stats))
                     /\ processed_lines' =
                          Append(KeepCollected(processed_lines, multiline_lines),
                                 Ln(i + 1, line))
                ELSE /\ log' = Append(log, LogRec(line_range, "SUCCESS", multiline_text,
                                                  r.translated, ""))
                     /\ stats' = CountEntry(CountSuccess(stats))
                     /\ processed_lines' =
                          Append(KeepCollected(processed_lines, multiline_lines),
                                 Ln(i + 1, line))
                            \o TransLines(split_translated_text(r.translated,
                                                                Len(original_text_lines)))
    /\ mode' = "normal"
    /\ multiline_lines' = <<>>
    /\ multiline_text' = <<>>
    /\ UNCHANGED multiline_start_line
    /\ Advance

\* multiline mode, msgstr "" with blank source text: empty multiline
SpanEndEmpty ==
    /\ Looping /\ mode = "multiline"
    /\ ~IsQuoted(original_line)
    /\ IsSpanEnd(original_line)
    /\ Strip(multiline_text) = <<>>
    /\ processed_lines' =
         Append(KeepCollected(processed_lines, multiline_lines), Ln(i + 1, line))
    /\ stats' = CountEntry(CountSkipped(stats))
    /\ mode' = "normal"
    /\ multiline_lines' = <<>>
    /\ multiline_text' = <<>>
    /\ UNCHANGED <<multiline_start_line, log, calls>>
    /\ Advance

\* multiline mode, unexpected line: treated as regular
UnexpectedLine ==
    /\ Looping /\ mode = "multiline"
    /\ ~IsQuoted(original_line)
    /\ ~IsSpanEnd(original_line)
    /\ processed_lines' = Append(processed_lines, Ln(i + 1, line))
    /\ UNCHANGED <<mode, multiline_start_line, multiline_lines, multiline_text,
                   stats, log, calls>>
    /\ Advance

\* f.writelines(processed_lines)
Written(ls) == [k \in 1..Len(ls) |-> ls[k].text]

\* after the loop: save the output file and return True
Save ==
    /\ pc = "loop" /\ i = Len(lines)
    /\ output_file' = [written |-> TRUE, lines |-> Written(processed_lines)]
    /\ returned' = "True"
    /\ pc' = "done"
    /\ UNCHANGED <<lines, i, mode, multiline_start_line, multiline_lines, multiline_text,
                   processed_lines, stats, maps, counters, log, calls, sc_content, scans>>
    /\ UNCHANGED svars

Step ==
    \/ SingleLineTranslate
    \/ SingleLineBlank
    \/ SingleLineNoMatch
    \/ MultilineStart
    \/ RegularLine
    \/ CollectText
    \/ SpanEndTranslate
    \/ SpanEndEmpty
    \/ UnexpectedLine

Next ==
    \/ FileNotFound
    \/ ReadFile(MaxLines)
    \/ Step
    \/ Save

Spec == Init /\ [][Next]_vars

\* The for loop is sequential and every iteration ends (the command runs under
\* timeout=20), so an iteration that can be taken is taken, and so is the save
\* that follows the loop.
NextLive ==
    \/ FileNotFound
    \/ ReadFile(MaxLiveLines)
    \/ Step
    \/ Save

FairSpec == Init /\ [][NextLive]_vars /\ WF_vars(Step) /\ WF_vars(Save)

----------------------------------------------------------------------------
(* A direct call of split_translated_text *)

\* the non-empty texts of letters and spaces up to MaxTextLen characters
SplitTexts == UNION {[1..k -> {"a", SP}] : k \in 1..MaxTextLen}

InitSplit ==
    /\ pc = "start"
    /\ lines = <<>>
    /\ i = 0
    /\ mode = "normal"
    /\ multiline_start_line = 0
    /\ multiline_lines = <<>>
    /\ multiline_text = <<>>
    /\ processed_lines = <<>>
    /\ stats = InitStats
    /\ maps = EmptyMaps
    /\ counters = InitCounters
    /\ log = <<>>
    /\ calls = <<>>
    /\ output_file = NotWritten
    /\ returned = "none"
    /\ sc_content = <<>>
    /\ scans = NoScans
    /\ st_pc = "call"
    /\ st_text \in SplitTexts
    /\ st_n \in 1..MaxOrigLines
    /\ st_result = <<>>
    /\ pt_text = <<>>

SplitCall ==
    /\ st_pc = "call"
    /\ st_result' = split_translated_text(st_text, st_n)
    /\ st_pc' = "returned"
    /\ UNCHANGED <<st_text, st_n, pt_text>>
    /\ UNCHANGED pvars

SpecSplit == InitSplit /\ [][SplitCall]_vars

----------------------------------------------------------------------------
(* Direct calls of scan_markup, protect_text and translate_text on one object *)

\* the contents handed to scan_markup
ScanContents ==
    { <<"{", "a", "}", "{", "b", "}">>,
      <<"[", "{", "a", "}", "]">>,
      <<"(", "1", ")", "(", "a", ")">>,
      <<"<", "x", ">", "[", "x", "]">> }

\* texts with markup tokens
TokenTexts ==
    { <<"{", "a", "}">>, <<"p", "{", "a", "}">>, <<"[", "{", "a", "}", "]">>,
      <<"(", "a", ")">>, <<"(", "1", ")">>, <<"(", "b", ")">>,
      <<"<", "x", ">">>, <<"[", "x", "]">>, <<"<", "y", ">">>, <<"[", "y", "]">> }

\* texts of the classes translate_text returns early on, and a plain one
PlainTexts ==
    { <<>>, <<SP>>, <<"@", "a">>, <<"a">> \o RES_URL,
      <<"a">> \o EXT_PNG, <<"a">> \o EXT_JPG, <<"a">> \o EXT_MP3, <<"a">> }

\* the command prints its argument unchanged
EchoOut(text) == text \o <<NL>>

\* translate_text(text), the command being also able to print its argument unchanged
PipelineResults(x) ==
    Strict(LAMBDA text :
             translate_text(text)
                \cup (IF NoCommand(text) THEN {} ELSE {AfterCommand(text, EchoOut(text))}),
           x)

\* the object after __init__, with the text the direct calls are made on
InitDirect(texts) ==
    /\ pc = "start"
    /\ lines = <<>>
    /\ i = 0
    /\ mode = "normal"
    /\ multiline_start_line = 0
    /\ multiline_lines = <<>>
    /\ multiline_text = <<>>
    /\ processed_lines = <<>>
    /\ stats = InitStats
    /\ maps = EmptyMaps
    /\ counters = InitCounters
    /\ log = <<>>
    /\ calls = <<>>
    /\ output_file = NotWritten
    /\ returned = "none"
    /\ sc_content = <<>>
    /\ scans = NoScans
    /\ st_pc = "idle"
    /\ st_text = <<>>
    /\ st_n = 1
    /\ st_result = <<>>
    /\ pt_text \in texts

\* self.scan_markup(c)
ScanCall(c) ==
    /\ c \in DOMAIN scans \/ Cardinality(DOMAIN scans) < MaxScans
    /\ \E ords \in VisitOrders(scans, c) :
         \E r \in {scan_markup(counters, ords)} :
            /\ sc_content' = c
            /\ maps' = r.maps
            /\ counters' = r.counters
            /\ scans' = (c :> ScanRec(ords, r, c \in DOMAIN scans)) @@ scans
    /\ UNCHANGED <<pc, lines, i, mode, multiline_start_line, multiline_lines,
                   multiline_text, processed_lines, stats, log, calls, output_file,
                   returned>>
    /\ UNCHANGED svars

\* protected_text = self.protect_text(pt_text);
\* translated_text, error = self.translate_text(protected_text)
PipelineCall ==
    /\ Len(calls) < MaxCalls
    /\ \E protected_text \in {protect_text(maps, pt_text)} :
         \E r \in PipelineResults(protected_text) :
            calls' = Append(calls, CallRec(pt_text, protected_text, r))
    /\ UNCHANGED <<pc, lines, i, mode, multiline_start_line, multiline_lines,
                   multiline_text, processed_lines, stats, maps, counters, log,
                   output_file, returned, sc_content, scans>>
    /\ UNCHANGED svars

InitScan == InitDirect(TokenTexts \cup PlainTexts)

NextScan ==
    \/ \E c \in ScanContents : ScanCall(c)
    \/ PipelineCall

SpecScan == InitScan /\ [][NextScan]_vars

\* the texts of ordinary characters and backslash escapes up to MaxEscLen characters
EscapeTexts == UNION {[1..k -> {"a", BS, "n", "t", Q, "r"}] : k \in 1..MaxEscLen}

InitEscape == InitDirect(EscapeTexts)

NextEscape == PipelineCall

SpecEscape == InitEscape /\ [][NextEscape]_vars

----------------------------------------------------------------------------
(* Vocabulary of the properties, stated from the input lines *)

\* trimmed form starts and ends with a double quote
QuotedForm(l) == StartsWith(Strip(l), QQ) /\ EndsWith(Strip(l), QQ)

\* trimmed form starts with msgstr ""
ClosesSpan(l) == StartsWith(Strip(l), MSGSTR_EMPTY)

\* trimmed form carries a leading or a trailing double quote, not both
OneQuoteOnly(l) == StartsWith(Strip(l), QQ) # EndsWith(Strip(l), QQ)

\* the input line numbers strictly between a and b that hold quoted lines
QuotedBetween(a, b) == {j \in (a + 1)..(b - 1) : QuotedForm(lines[j])}

\* the trimmed line without its first and its last character
Inner(l) == SubSeq(Strip(l), 2, Len(Strip(l)) - 1)

\* the inner contents of the quoted lines strictly between a and b, concatenated
RECURSIVE InnerConcat(_, _)
InnerConcat(a, b) ==
    IF a + 1 >= b THEN <<>>
    ELSE (IF QuotedForm(lines[a + 1]) THEN Inner(lines[a + 1]) ELSE <<>>)
            \o InnerConcat(a + 1, b)

\* the input lines as line objects
InputObjects == [k \in 1..Len(lines) |-> Ln(k, lines[k])]

\* a step of the loop that consumes the current line
Consumes == Looping /\ i' = i + 1

\* this step called the transform pipeline
Called == Len(calls') = Len(calls) + 1

LastCall == calls'[Len(calls')]

LastLog == log'[Len(log')]

\* this step closes an open span whose accumulated source text is not blank
ClosesWithText ==
    Consumes /\ mode = "multiline" /\ ~QuotedForm(line) /\ ClosesSpan(line)
             /\ Strip(multiline_text) # <<>>

\* the current line is a single line msgid with text, met in normal mode
SingleWithText ==
    /\ Consumes /\ mode = "normal"
    /\ StartsWith(Strip(line), MSGID_Q) /\ Strip(line) # MSGID_EMPTY
    /\ MsgidSearch(RStrip(line)) # <<>>
    /\ Strip(MsgidSearch(RStrip(line))[1]) # <<>>

\* the lines appended to the output by this step
Appended == SubSeq(processed_lines', Len(processed_lines) + 1, Len(processed_lines'))

OutputGrows ==
    /\ Len(processed_lines') >= Len(processed_lines)
    /\ SubSeq(processed_lines', 1, Len(processed_lines)) = processed_lines

----------------------------------------------------------------------------
(* C1: once process_po_file has consumed all lines, every input line is in   *)
(* processed_lines exactly once, the input lines keep their relative order,  *)
(* and every other output line is a reflowed line that follows a span-closing*)
(* msgstr line, directly or after other reflowed lines.                      *)
C1_EveryLineOnceInOrder ==
    (pc = "done" /\ returned = "True") =>
        /\ SelectSeq(processed_lines, LAMBDA e : e.n # 0) = InputObjects
        /\ \A k \in 1..Len(processed_lines) :
             processed_lines[k].n = 0 =>
                \E j \in 1..(k - 1) :
                    /\ processed_lines[j].n # 0
                    /\ ClosesSpan(processed_lines[j].text)
                    /\ \A h \in (j + 1)..k : processed_lines[h].n = 0

(* C2: if the input ends in multiline mode, the buffered lines of the open   *)
(* span are in the output that was written.                                  *)
C2_UnterminatedSpanEmitted ==
    (pc = "done" /\ returned = "True" /\ mode = "multiline") =>
        \A k \in 1..Len(multiline_lines) :
            /\ \E j \in 1..Len(processed_lines) : processed_lines[j] = multiline_lines[k]
            /\ \E j \in 1..Len(output_file.lines) :
                   output_file.lines[j] = multiline_lines[k].text

(* C3: a span with source text that is closed by msgstr "" with a successful *)
(* transform appends the buffered msgid lines, the msgstr line, then k       *)
(* reflowed quoted lines, 1 <= k <= number of quoted lines of the span;      *)
(* success and total_entries grow by 1; the machine is back in normal mode   *)
(* with empty buffers.                                                       *)
C3_SpanSuccess ==
    [][(ClosesWithText /\ Called /\ LastCall.error = None) =>
         LET nq == Cardinality(QuotedBetween(multiline_start_line, i + 1))
             k  == Len(Appended) - Len(multiline_lines) - 1
         IN  /\ OutputGrows
             /\ 1 <= k /\ k <= nq
             /\ SubSeq(Appended, 1, Len(multiline_lines)) = multiline_lines
             /\ Appended[Len(multiline_lines) + 1] = Ln(i + 1, line)
             /\ \A h \in (Len(multiline_lines) + 2)..Len(Appended) :
                    /\ Appended[h].n = 0
                    /\ QuotedForm(Appended[h].text)
                    /\ Appended[h].text[Len(Appended[h].text)] = NL
             /\ stats' = [stats EXCEPT !.success = @ + 1, !.total_entries = @ + 1]
             /\ mode' = "normal"
             /\ multiline_lines' = <<>>
             /\ multiline_text' = <<>>]_vars

\* a span of two quoted lines was closed with two reflowed lines
C3_Witness ==
    /\ pc = "loop" /\ mode = "normal"
    /\ stats.success = 1 /\ stats.total_entries = 1
    /\ Len(processed_lines) = 6
    /\ processed_lines[5].n = 0 /\ processed_lines[6].n = 0
    /\ ClosesSpan(processed_lines[4].text)

(* C4: a span with source text that is closed with a failed transform        *)
(* appends exactly the buffered msgid lines and the unchanged msgstr line;   *)
(* failed and total_entries grow by 1, success and skipped do not change;    *)
(* the machine is back in normal mode.                                       *)
C4_SpanFailure ==
    [][(ClosesWithText /\ Called /\ LastCall.error # None) =>
         /\ OutputGrows
         /\ Appended = Append(multiline_lines, Ln(i + 1, line))
         /\ \A h \in 1..Len(Appended) :
                /\ Appended[h].n \in {multiline_start_line, i + 1}
                                       \cup QuotedBetween(multiline_start_line, i + 1)
                /\ Appended[h].text = lines[Appended[h].n]
                /\ \A g \in 1..(h - 1) : Appended[g].n < Appended[h].n
         /\ Len(Appended) = Cardinality(QuotedBetween(multiline_start_line, i + 1)) + 2
         /\ stats' = [stats EXCEPT !.failed = @ + 1, !.total_entries = @ + 1]
         /\ mode' = "normal"]_vars

\* a span closed after each kind of transform failure
C4_Witness ==
    /\ stats.failed = 1 /\ stats.total_entries = 1 /\ mode = "normal"
    /\ Len(calls) = 1
    /\ calls[1].error = "Translation timeout"
    /\ Len(processed_lines) = 3

(* C5: in normal mode a single line msgid with text is appended once and     *)
(* unchanged and the mode stays normal, whatever the transform returns; a    *)
(* failure is logged as ERROR with its message and counts in failed, a       *)
(* success counts in success; nothing else is written to the output.         *)
C5_SingleLine ==
    [][SingleWithText =>
         /\ Appended = <<Ln(i + 1, line)>>
         /\ OutputGrows
         /\ mode' = "normal"
         /\ Called
         /\ Len(log') = Len(log) + 1
         /\ (LastCall.error # None =>
                /\ LastLog.status = "ERROR"
                /\ LastLog.error_msg = LastCall.error
                /\ stats' = [stats EXCEPT !.failed = @ + 1])
         /\ (LastCall.error = None =>
                /\ LastLog.status = "SUCCESS"
                /\ stats' = [stats EXCEPT !.success = @ + 1])]_vars

\* a single line msgid whose transform timed out
C5_Witness ==
    /\ Len(log) = 1
    /\ log[1].line_range = <<1>>
    /\ log[1].status = "ERROR"
    /\ log[1].error_msg = "Translation timeout"
    /\ stats.failed = 1
    /\ processed_lines = <<Ln(1, lines[1])>>

(* C6: msgstr "" closing a span whose source text is empty or blank, as when *)
(* it directly follows msgid "", ends the span as skipped: the lines are     *)
(* appended unchanged, the transform is not called, skipped and              *)
(* total_entries grow by 1, success and failed do not change, and the mode   *)
(* is normal again.                                                          *)
C6_EmptySpanSkipped ==
    [][(Consumes /\ mode = "multiline" /\ ~QuotedForm(line) /\ ClosesSpan(line)
          /\ Strip(InnerConcat(multiline_start_line, i + 1)) = <<>>) =>
         /\ OutputGrows
         /\ Appended = Append(multiline_lines, Ln(i + 1, line))
         /\ (multiline_start_line = i =>
                Appended = <<Ln(i, lines[i]), Ln(i + 1, line)>>)
         /\ calls' = calls
         /\ log' = log
         /\ stats' = [stats EXCEPT !.skipped = @ + 1, !.total_entries = @ + 1]
         /\ mode' = "normal"]_vars

\* msgid "" directly followed by msgstr ""
C6_Witness ==
    /\ i = 2 /\ mode = "normal"
    /\ Strip(lines[1]) = MSGID_EMPTY
    /\ ClosesSpan(lines[2])
    /\ stats.skipped = 1 /\ stats.total_entries = 1
    /\ processed_lines = <<Ln(1, lines[1]), Ln(2, lines[2])>>

(* C7: in multiline mode a line that is neither quoted nor starts with       *)
(* msgstr "" is appended unchanged, the mode stays multiline, and the start  *)
(* line, the buffered lines and the accumulated text do not change; a line   *)
(* with only a leading or only a trailing quote is such a line.              *)
C7_UnexpectedLine ==
    [][(Consumes /\ mode = "multiline" /\ ~QuotedForm(line) /\ ~ClosesSpan(line)) =>
         /\ OutputGrows
         /\ Appended = <<Ln(i + 1, line)>>
         /\ mode' = "multiline"
         /\ multiline_start_line' = multiline_start_line
         /\ multiline_lines' = multiline_lines
         /\ multiline_text' = multiline_text
         /\ stats' = stats]_vars

\* lines with only a leading and only a trailing quote went through an open span
C7_Witness ==
    /\ mode = "multiline" /\ i = 4
    /\ multiline_start_line = 1
    /\ Len(multiline_lines) = 2
    /\ OneQuoteOnly(lines[3]) /\ StartsWith(Strip(lines[3]), QQ)
    /\ OneQuoteOnly(lines[4]) /\ EndsWith(Strip(lines[4]), QQ)
    /\ processed_lines = <<Ln(3, lines[3]), Ln(4, lines[4])>>

(* C8: a failed or timed out transform does not stop the run: from any point *)
(* of the loop the pass reaches its end with every line consumed, the output *)
(* written and True returned, and every entry with source text met after a   *)
(* failure is still handed to the transform.                                 *)
C8_FailureNeverStopsRun ==
    /\ (pc = "loop") ~> (pc = "done" /\ i = Len(lines) /\ returned = "True"
                            /\ output_file.written)
    /\ [][((SingleWithText \/ ClosesWithText) /\ stats.failed > 0) => Called]_vars

\* a run that ended after a timeout, a failure and then a success
C8_Witness ==
    /\ pc = "done" /\ returned = "True"
    /\ Len(calls) = 3
    /\ calls[1].error = "Translation timeout"
    /\ calls[2].error = "Translation command failed"
    /\ calls[3].error = None

(* C9: the source text handed to the transform pipeline when msgstr ""       *)
(* closes a span is the concatenation, in input order and without            *)
(* separators, of the inner contents of the quoted lines between the span's  *)
(* msgid "" line and the closing line.                                       *)
C9_SourceIsConcatenation ==
    [][(Consumes /\ mode = "multiline" /\ ~QuotedForm(line) /\ ClosesSpan(line) /\ Called) =>
         /\ LastCall.source = InnerConcat(multiline_start_line, i + 1)
         /\ LastCall.protected = protect_text(maps, LastCall.source)]_vars

\* a span of two quoted lines, one of them indented, was handed over
C9_Witness ==
    /\ Len(calls) = 1
    /\ i = 4 /\ multiline_start_line = 1
    /\ calls[1].source = <<"{", "a", "}", SP, "b", SP>>
    /\ Len(lines[2]) > Len(Strip(lines[2])) + 1

(* C10: for a non-empty translated text and an original line count n >= 1,  *)
(* split_translated_text returns at least 1 and at most n lines, and exactly *)
(* 1 line when n = 1.                                                        *)
C10_ReflowLineCount ==
    st_pc = "returned" =>
        /\ Len(st_result) >= 1
        /\ Len(st_result) <= st_n
        /\ (st_n = 1 => Len(st_result) = 1)

\* three words packed for two lines: the trailing lines were merged
C10_Witness ==
    /\ st_pc = "returned"
    /\ st_n = 2
    /\ Len(Split(st_text)) = 3
    /\ Len(st_result) = 2

----------------------------------------------------------------------------
(* Vocabulary of the properties of the direct calls *)

\* every token of the text, in every category, has an id in the current maps
AllMapped(text) ==
    \A k \in DOMAIN Categories :
        Scanned(text, Categories[k]) \subseteq DOMAIN maps[Categories[k]]

\* the transform of this step returned the text it was given unchanged
ReturnedUnchanged ==
    /\ Called
    /\ LastCall.error = None
    /\ LastCall.translated = ReplaceEach(LastCall.protected, restore_map)

----------------------------------------------------------------------------
(* C11: the pipeline restores the protected tokens after the transform: when  *)
(* every token of the text was scanned and the transform returns its input   *)
(* unchanged, the translated text is the source text again, with the token   *)
(* contents and not their placeholder ids.                                   *)
C11_TokenRoundTrip ==
    [][(ReturnedUnchanged /\ AllMapped(pt_text)) => LastCall.translated = pt_text]_vars

----------------------------------------------------------------------------
(* C12: for every text of ordinary characters and the five backslash escapes, *)
(* adjacent and overlapping ones included, replacing the escapes by their    *)
(* sentinels in the order of protect_text and the sentinels back in the      *)
(* order of translate_text's restore map yields the original text.           *)
C12_EscapeRoundTrip ==
    [][Called =>
         /\ LastCall.protected = ReplaceEach(pt_text, escape_map)
         /\ AfterCommand(LastCall.protected, EchoOut(LastCall.protected))
               = [translated |-> pt_text, error |-> None]]_vars

\* backslash-backslash-n went through protect_text and came back unchanged
C12_Witness ==
    /\ pt_text = <<BS, BS, "n">>
    /\ calls # <<>>
    /\ calls[1].protected = <<BS>> \o S_NEWLINE
    /\ calls[1].error = None
    /\ calls[1].translated = pt_text

\* the ids of one category are 1..k without repetition, and its counter is k + 1
DenseIds(cat) ==
    /\ {maps[cat][x] : x \in DOMAIN maps[cat]}
          = {IntToStr(j) : j \in 1..Cardinality(DOMAIN maps[cat])}
    /\ \A x, y \in DOMAIN maps[cat] : maps[cat][x] = maps[cat][y] => x = y
    /\ counters[cat] = Cardinality(DOMAIN maps[cat]) + 1

\* a step that is a scan_markup call
ScanStep == sc_content' # sc_content \/ scans' # scans

----------------------------------------------------------------------------
(* C13: after scan_markup, in each category the assigned ids are exactly     *)
(* 1..k for the k mapped inner strings (dense from 1, no id shared), the     *)
(* category counter is k + 1, and no later step changes a mapping.           *)
C13_DenseIds ==
    /\ [](\A k \in DOMAIN Categories : DenseIds(Categories[k]))
    /\ [][~ScanStep => UNCHANGED <<maps, counters>>]_vars

\* two tags were given the ids 1 and 2, and a pipeline call followed the scan
C13_Witness ==
    /\ Cardinality(DOMAIN maps.tag) = 2
    /\ counters.tag = 3
    /\ calls # <<>>
    /\ pt_text = <<"{", "a", "}">>
    /\ calls[1].protected = <<"{", "2", "}">>

\* where the token of category cat around inner first occurs in the scanned content
FirstPos(cat, inner) ==
    CHOOSE p \in 1..(Len(sc_content) - Len(inner) - 1) :
        /\ SubSeq(sc_content, p, p + Len(inner) + 1) = <<Open(cat)>> \o inner \o <<Close(cat)>>
        /\ \A q \in 1..(p - 1) :
              SubSeq(sc_content, q, q + Len(inner) + 1) # <<Open(cat)>> \o inner \o <<Close(cat)>>

\* the id of inner in category cat, as a number
IdNum(cat, inner) ==
    CHOOSE j \in 0..(counters[cat] + Cardinality(DOMAIN maps[cat])) :
        IntToStr(j) = maps[cat][inner]

----------------------------------------------------------------------------
(* C14: scan_markup assigns the ids of a category in first-seen order: when  *)
(* inner string A first occurs in the content before inner string B of the   *)
(* same category, the id of A is smaller than the id of B.                   *)
C14_FirstSeenOrder ==
    \A k \in DOMAIN Categories :
        \A A, B \in DOMAIN maps[Categories[k]] :
            FirstPos(Categories[k], A) < FirstPos(Categories[k], B)
                => IdNum(Categories[k], A) < IdNum(Categories[k], B)

----------------------------------------------------------------------------
(* C15: scanning is idempotent and independent of the scanner's prior state: *)
(* a scan_markup call on a content scanned before, directly or after a scan  *)
(* of another content, yields the same maps and the same counters.           *)
C15_ScanIdempotent ==
    [][(ScanStep /\ sc_content' \in DOMAIN scans)
          => /\ maps' = scans[sc_content'].maps
             /\ counters' = scans[sc_content'].counters]_vars

\* a content with two tags was scanned again, another content being scanned as well
C15_Witness ==
    /\ sc_content = <<"{", "a", "}", "{", "b", "}">>
    /\ sc_content \in DOMAIN scans
    /\ scans[sc_content].again
    /\ Cardinality(DOMAIN scans) = 2
    /\ Cardinality(DOMAIN maps.tag) = 2

\* no delimiter of any category and no backslash occurs in s
IsPlain(s) ==
    \A k \in 1..Len(s) : s[k] \notin {"{", "}", "[", "]", "(", ")", "<", ">", BS}

\* what the claim expects in place of the content inner of a token of category cat
ExpectedId(cat, inner) ==
    IF inner \in DOMAIN maps[cat] THEN maps[cat][inner]
    ELSE IF cat \in {"tag", "var", "bracket"} THEN <<"?">> ELSE inner

----------------------------------------------------------------------------
(* C16: protect_text replaces a single-level delimiter-wrapped token by the   *)
(* same delimiters around its mapped id; for an unmapped token it puts ? in  *)
(* the tag, variable and bracket categories and keeps the content in the     *)
(* emotion category; and it never fails: a call always returns.              *)
C16_ProtectToken ==
    /\ [][Called =>
            \A k \in DOMAIN Categories : \A p \in 0..Len(pt_text) :
               (/\ Len(pt_text) >= p + 3
                /\ pt_text[p + 1] = Open(Categories[k])
                /\ pt_text[Len(pt_text)] = Close(Categories[k])
                /\ IsPlain(SubSeq(pt_text, 1, p))
                /\ IsPlain(SubSeq(pt_text, p + 2, Len(pt_text) - 1)))
               => LastCall.protected
                    = SubSeq(pt_text, 1, p) \o <<Open(Categories[k])>>
                        \o ExpectedId(Categories[k], SubSeq(pt_text, p + 2, Len(pt_text) - 1))
                        \o <<Close(Categories[k])>>]_vars
    /\ [](Len(calls) < MaxCalls => ENABLED PipelineCall)

\* an unmapped variable token became [?] while the variable map held another token
C16_Witness ==
    /\ pt_text = <<"[", "y", "]">>
    /\ DOMAIN maps.var = {<<"x">>}
    /\ calls # <<>>
    /\ calls[1].protected = <<"[", "?", "]">>

\* the texts the claim names: empty or blank, starting with @, containing res://,
\* ending in .png, .jpg or .mp3
SkipClass(t) ==
    \/ \A k \in 1..Len(t) : IsSpace(t[k])
    \/ (t # <<>> /\ t[1] = "@")
    \/ \E p \in 1..(Len(t) - 5) : SubSeq(t, p, p + 5) = RES_URL
    \/ (Len(t) >= 4 /\ SubSeq(t, Len(t) - 3, Len(t)) \in {EXT_PNG, EXT_JPG, EXT_MP3})

----------------------------------------------------------------------------
(* C17: for empty or blank text, text starting with @, text containing       *)
(* res:// and text ending in .png, .jpg or .mp3, translate_text does not run *)
(* the external command and returns the text unchanged with an error that    *)
(* tells the skip.                                                           *)
C17_SkipInputs ==
    [][(Called /\ SkipClass(LastCall.protected))
          => /\ ~LastCall.ran
             /\ LastCall.translated = LastCall.protected
             /\ LastCall.error \in {"Empty input", "Command skipped"}]_vars

\* a text ending in .mp3 was handed to translate_text and skipped
C17_Witness ==
    /\ pt_text = <<"a">> \o EXT_MP3
    /\ calls # <<>>
    /\ calls[1].protected = pt_text
    /\ ~calls[1].ran
    /\ calls[1].error = "Command skipped"

\* the text of the direct calls occurs in the scanned content
TakenFromContent ==
    \E p \in 1..(Len(sc_content) - Len(pt_text) + 1) :
        SubSeq(sc_content, p, p + Len(pt_text) - 1) = pt_text

----------------------------------------------------------------------------
(* C18: after scan_markup(content), protect_text applied to a source string  *)
(* taken from that content never produces the ? placeholder: every tag,      *)
(* variable and bracket token it matches has a mapped id, tokens nested in a *)
(* token of another category included.                                       *)
C18_NoQuestionMark ==
    [][(Called /\ TakenFromContent)
          => \A k \in 1..Len(LastCall.protected) : LastCall.protected[k] # "?"]_vars

\* a returned line without its enclosing quotes
Unquoted(l) == SubSeq(l, 2, Len(l) - 1)

\* the returned lines without their quotes, concatenated
RECURSIVE UnquotedConcat(_)
UnquotedConcat(ls) ==
    IF ls = <<>> THEN <<>> ELSE Unquoted(Head(ls)) \o UnquotedConcat(Tail(ls))

\* s ends with exactly one space
EndsWithOneSpace(s) ==
    /\ s # <<>>
    /\ s[Len(s)] = SP
    /\ (Len(s) >= 2 => s[Len(s) - 1] # SP)

----------------------------------------------------------------------------
(* C19: for an original line count of at least 2 and a translated text with  *)
(* at least one word, every returned line but the last ends with a single    *)
(* space before its closing quote, the last one does not, and the returned   *)
(* lines without their quotes, concatenated, are the words of the text       *)
(* joined by single spaces: no word is lost, duplicated or reordered.        *)
C19_ReflowWords ==
    (st_pc = "returned" /\ st_n >= 2 /\ Split(st_text) # <<>>)
        => /\ st_result # <<>>
           /\ \A k \in 1..(Len(st_result) - 1) : EndsWithOneSpace(Unquoted(st_result[k]))
           /\ Unquoted(st_result[Len(st_result)]) # <<>>
           /\ Unquoted(st_result[Len(st_result)])[Len(st_result[Len(st_result)]) - 2] # SP
           /\ \A k \in 1..Len(st_result) :
                 st_result[k][1] = Q /\ st_result[k][Len(st_result[k])] = Q
           /\ UnquotedConcat(st_result) = Join(Split(st_text))

\* three words on two original lines: three lines were packed, the last two merged
C19_Witness ==
    /\ st_pc = "returned"
    /\ st_n = 2
    /\ st_text = <<"a", SP, "a", SP, "a">>
    /\ st_result = << <<Q, "a", SP, Q>>, <<Q, "a", SP, "a", Q>> >>

\* success + failed + skipped
Outcomes(st) == st.success + st.failed + st.skipped

\* this step closes an open span, whatever its text
ClosesAnySpan == Consumes /\ mode = "multiline" /\ ~QuotedForm(line) /\ ClosesSpan(line)

----------------------------------------------------------------------------
(* C20: no statistics counter ever decreases; total_entries counts the       *)
(* multiline spans closed so far, going up by one exactly in the steps that  *)
(* close a span; each closed span adds exactly 1 to exactly one of success,  *)
(* failed and skipped; a single-line entry adds 1 to success or to failed    *)
(* and never to total_entries, so total_entries <= success + failed +        *)
(* skipped; errors is never changed.                                         *)
C20_StatsCounters ==
    /\ [](stats.total_entries <= Outcomes(stats) /\ stats.errors = 0)
    /\ [][/\ \A f \in DOMAIN stats : stats'[f] >= stats[f]
          /\ stats'.errors = stats.errors
          /\ IF ClosesAnySpan
             THEN /\ stats'.total_entries = stats.total_entries + 1
                  /\ Outcomes(stats') = Outcomes(stats) + 1
             ELSE /\ stats'.total_entries = stats.total_entries
                  /\ stats'.skipped = stats.skipped
                  /\ IF SingleWithText
                     THEN stats'.success + stats'.failed = stats.success + stats.failed + 1
                     ELSE stats' = stats]_vars

\* a single-line entry succeeded and a span was closed with a failure
C20_Witness ==
    /\ stats.total_entries = 1
    /\ stats.success = 1
    /\ stats.failed = 1
    /\ stats.skipped = 0
    /\ Len(log) = 2 /\ log[1].status = "SUCCESS" /\ log[2].status = "ERROR"

====
